---- MODULE Spec2Model ----
(***************************************************************************)
(* A model of the JSON cache managers: one manager instance (an in-memory  *)
(* cache bound to a file path), its PromiseQueue, and the file system      *)
(* entries `path` and `path + ".tmp"`.                                     *)
(*                                                                         *)
(* JSON values, and the Set / Map containers a cache may be, are records   *)
(* of one shape, [t, p, elems, keys, vals]:                                *)
(*   t     the kind of value: "null" "bool" "num" "str" "arr" "obj" for    *)
(*         JSON values, "set" "map" for the JavaScript containers, and     *)
(*         "throw" for the result of a reviver that threw;                 *)
(*   p     the payload of a primitive, as text; for an object or array the *)
(*         caller holds a reference to, the name of that reference ("" for *)
(*         one that only the cache refers to, as JSON.parse makes them);   *)
(*   elems the elements of an array or Set, in iteration order;            *)
(*   keys, vals  the own enumerable properties of an object (or the        *)
(*         entries of a Map), in insertion order.  An array may carry      *)
(*         properties too (cache[key] = value on an array).  For an object *)
(*         elems is empty, or holds the one value its prototype was set to *)
(*         by an assignment to obj["__proto__"].                           *)
(* Property keys are never index-like ("0", "1", ...) in this model.       *)
(***************************************************************************)
EXTENDS Integers, Sequences, FiniteSets, TLC

VARIABLES
    kind,       \* which manager class the instance is
    cache0,     \* the value the constructor was given (init)
    path0,      \* what the file at path held when the instance was constructed
    cache,      \* this.__cache
    file,       \* file.path, file.tmp: the two directory entries
    tasks,      \* every task given to queue.set, in the order scheduled
    lock,       \* this.lock: the task whose settlement it follows (0: Promise.resolve())
    calls,      \* every call made on the instance, with the promise it returned
    held,       \* every document the cache has serialized to so far
    fails,      \* I/O failures injected so far
    crashed,    \* the process has crashed
    lastLoad,   \* the most recent completed read of load / loadSync
    peer        \* a second instance of the same class on the same path:
                \* its cache, its tasks and its lock

vars == <<kind, cache0, path0, cache, file, tasks, lock, calls, held, fails, crashed, lastLoad,
          peer>>

\* ---------------------------------------------------------------- bounds
MaxCalls == 2
MaxFails == 1

MaxIndex == 6

\* ---------------------------------------------------------------- values
Mk(t, p, elems, keys, vals) ==
    [t |-> t, p |-> p, elems |-> elems, keys |-> keys, vals |-> vals]

Null == Mk("null", "", <<>>, <<>>, <<>>)
Num(p) == Mk("num", p, <<>>, <<>>, <<>>)
Str(p) == Mk("str", p, <<>>, <<>>, <<>>)
Bool(p) == Mk("bool", p, <<>>, <<>>, <<>>)
Arr(elems) == Mk("arr", "", elems, <<>>, <<>>)
Obj(keys, vals) == Mk("obj", "", <<>>, keys, vals)
SetOf(elems) == Mk("set", "", elems, <<>>, <<>>)
MapOf(keys, vals) == Mk("map", "", <<>>, keys, vals)
Throw == Mk("throw", "", <<>>, <<>>, <<>>)

IsPrim(v) == v.t \in {"null", "bool", "num", "str"}

\* typeof v
TypeOf(v) ==
    CASE v.t = "num" -> "number"
      [] v.t = "str" -> "string"
      [] v.t = "bool" -> "boolean"
      [] OTHER -> "object"

\* SameValueZero, as Array.prototype.includes and Set use it: primitives by
\* value, objects by reference (an object the caller holds no reference to
\* is never the argument).
SameValueZero(a, b) == IF IsPrim(a) THEN a = b ELSE a.p # "" /\ a = b

Includes(seq, x) == \E i \in 1..Len(seq) : SameValueZero(seq[i], x)

RECURSIVE Uniq(_)
\* new Set(iterable): first occurrences, in order
Uniq(seq) ==
    IF seq = <<>> THEN <<>>
    ELSE LET front == Uniq(SubSeq(seq, 1, Len(seq) - 1))
             x == seq[Len(seq)]
         IN IF Includes(front, x) THEN front ELSE Append(front, x)

RECURSIVE Without(_, _)
Without(seq, x) ==
    IF seq = <<>> THEN <<>>
    ELSE LET rest == Without(Tail(seq), x)
         IN IF SameValueZero(Head(seq), x) THEN rest ELSE <<Head(seq)>> \o rest

IndexOf(keys, k) ==
    IF \E i \in 1..Len(keys) : keys[i] = k
    THEN CHOOSE i \in 1..Len(keys) : keys[i] = k
    ELSE 0

RemoveAt(seq, i) == SubSeq(seq, 1, i - 1) \o SubSeq(seq, i + 1, Len(seq))

\* obj[key] = value / map.set(key, value)
PutKey(v, k, x) ==
    LET i == IndexOf(v.keys, k)
    IN IF i = 0
       THEN [v EXCEPT !.keys = Append(v.keys, k), !.vals = Append(v.vals, x)]
       ELSE [v EXCEPT !.vals[i] = x]

\* delete obj[key] / map.delete(key)
DropKey(v, k) ==
    LET i == IndexOf(v.keys, k)
    IN IF i = 0 THEN v
       ELSE [v EXCEPT !.keys = RemoveAt(v.keys, i), !.vals = RemoveAt(v.vals, i)]

HasKey(v, k) == IndexOf(v.keys, k) # 0

Undefined == Mk("undefined", "", <<>>, <<>>, <<>>)

\* cache[key] / cache.get(key)
KeyedGet(v, k) == IF HasKey(v, k) THEN v.vals[IndexOf(v.keys, k)] ELSE Undefined

\* what obj["__proto__"] yields on an object whose prototype was not replaced
ObjectPrototype == Mk("Object.prototype", "", <<>>, <<>>, <<>>)

\* this.__cache[key] = value on a plain object.  "__proto__" is an accessor
\* inherited from Object.prototype unless the object has an own property of
\* that name (JSON.parse creates one): the assignment then replaces the
\* prototype when value is an object or null, does nothing otherwise, and
\* creates no own property.
RecordPut(c, key, value) ==
    IF key = "__proto__" /\ ~HasKey(c, key)
    THEN IF c.t = "obj" /\ value.t \in {"obj", "arr", "null"}
         THEN [c EXCEPT !.elems = <<value>>]
         ELSE c      \* (the prototype of an array cache is not tracked)
    ELSE PutKey(c, key, value)

\* this.cache[key]: an own property, or else what the prototype chain has
RecordGet(c, key) ==
    IF HasKey(c, key) THEN KeyedGet(c, key)
    ELSE IF c.t = "obj" /\ c.elems # <<>>
    THEN IF key = "__proto__" THEN c.elems[1] ELSE KeyedGet(c.elems[1], key)
    ELSE IF key = "__proto__" THEN ObjectPrototype ELSE Undefined

\* ------------------------------------------------------ JSON conversions
\* The reviver load passes to JSON.parse.  It is called for every value of
\* the document; every key but "" passes through.
Reviver(c, key, value) ==
    IF key # "" THEN value
    ELSE IF c.t = "set"
    THEN IF value.t # "arr" THEN Throw ELSE SetOf(Uniq(value.elems))
    ELSE IF c.t = "map"
    THEN IF TypeOf(value) # "object" \/ value.t = "null" \/ value.t = "arr"
         THEN Throw
         ELSE MapOf(value.keys, value.vals)
    ELSE IF TypeOf(c) # TypeOf(value) /\ (c.t # "arr" \/ value.t # "arr")
    THEN Throw
    ELSE value

RECURSIVE Internalize(_, _, _)
\* JSON.parse(raw, reviver) on a well-formed document: the children first,
\* array elements under their index and members under their key, then the
\* value itself.  A throw anywhere ends the parse.
Internalize(c, key, v) ==
    LET es == [i \in 1..Len(v.elems) |-> Internalize(c, "index", v.elems[i])]
        vs == [i \in 1..Len(v.vals) |-> Internalize(c, v.keys[i], v.vals[i])]
        threw == \/ \E i \in 1..Len(v.elems) : es[i].t = "throw"
                 \/ \E i \in 1..Len(v.vals) : vs[i].t = "throw"
    IN IF threw THEN Throw
       ELSE Reviver(c, key, [v EXCEPT !.elems = es, !.vals = vs])

RECURSIVE Stringify(_)
\* JSON.stringify(obj, null, 2), as the document the text holds: an array
\* keeps its elements only, a nested Set or Map has no enumerable property.
Stringify(v) ==
    CASE v.t = "arr" -> Arr([i \in 1..Len(v.elems) |-> Stringify(v.elems[i])])
      [] v.t = "obj" -> Obj(v.keys, [i \in 1..Len(v.vals) |-> Stringify(v.vals[i])])
      [] v.t \in {"set", "map"} -> Obj(<<>>, <<>>)
      [] OTHER -> v

\* JsonCacheManager.save: Set -> [...cache], Map -> Object.fromEntries(cache)
SaveObj(c) ==
    CASE c.t = "set" -> Arr(c.elems)
      [] c.t = "map" -> Obj(c.keys, c.vals)
      [] OTHER -> c

\* MapFileManager.save: always Object.fromEntries(this.cache)
MapSaveObj(c) == Obj(c.keys, c.vals)

\* ------------------------------------------------------------ the files
Absent == [s |-> "absent", doc |-> Null]
Empty == [s |-> "empty", doc |-> Null]        \* no text, or white space only
Malformed == [s |-> "malformed", doc |-> Null] \* text that is not JSON
Doc(d) == [s |-> "doc", doc |-> d]            \* the text of document d
Partial(d) == [s |-> "partial", doc |-> d]    \* a proper prefix of that text

\* the text a save of cache c writes
SaveText(k, c) == Doc(Stringify(IF k = "Map" THEN MapSaveObj(c) ELSE SaveObj(c)))

\* A faulty variant: save writes the document straight to this.path
TmpPathInPlace == "path"

\* this.path + ".tmp"
TmpPath == "tmp"

\* A faulty variant: the catch rethrows ENOENT like any other error
LoadBodyNoEnoent(c, f) ==
    CASE f.s = "absent" -> [out |-> "IOError", cache |-> c]
      [] f.s = "empty" -> [out |-> "false", cache |-> c]
      [] f.s \in {"malformed", "partial"} -> [out |-> "SyntaxError", cache |-> c]
      [] OTHER ->
           LET obj == Internalize(c, "", f.doc)
           IN IF obj.t = "throw"
              THEN [out |-> "ShapeError", cache |-> c]
              ELSE [out |-> "true", cache |-> obj]

\* The body of load once the file has been read as f: the outcome and the
\* cache it leaves.  A prefix of a document is no JSON.
LoadBody(c, f) ==
    CASE f.s = "absent" -> [out |-> "false", cache |-> c]
      [] f.s = "empty" -> [out |-> "false", cache |-> c]
      [] f.s \in {"malformed", "partial"} -> [out |-> "SyntaxError", cache |-> c]
      [] OTHER ->
           LET obj == Internalize(c, "", f.doc)
           IN IF obj.t = "throw"
              THEN [out |-> "ShapeError", cache |-> c]
              ELSE [out |-> "true", cache |-> obj]

\* The reviver loadSync passes to JSON.parse
ReviverSync(c, key, value) ==
    IF key # "" THEN value
    ELSE IF c.t = "set"
    THEN IF value.t # "arr" THEN Throw ELSE SetOf(Uniq(value.elems))
    ELSE IF c.t = "map"
    THEN IF TypeOf(value) # "object" \/ value.t = "null" \/ value.t = "arr"
         THEN Throw
         ELSE MapOf(value.keys, value.vals)
    ELSE IF TypeOf(c) # TypeOf(value) /\ (c.t # "arr" \/ value.t # "arr")
    THEN Throw
    ELSE value

RECURSIVE InternalizeSync(_, _, _)
\* JSON.parse(raw, reviver) in loadSync
InternalizeSync(c, key, v) ==
    LET es == [i \in 1..Len(v.elems) |-> InternalizeSync(c, "index", v.elems[i])]
        vs == [i \in 1..Len(v.vals) |-> InternalizeSync(c, v.keys[i], v.vals[i])]
        threw == \/ \E i \in 1..Len(v.elems) : es[i].t = "throw"
                 \/ \E i \in 1..Len(v.vals) : vs[i].t = "throw"
    IN IF threw THEN Throw
       ELSE ReviverSync(c, key, [v EXCEPT !.elems = es, !.vals = vs])

\* A faulty variant: raw is not trimmed and not tested before JSON.parse
LoadSyncBodyNoTrim(c, f) ==
    CASE f.s = "absent" -> [out |-> "false", cache |-> c]
      [] f.s \in {"empty", "malformed", "partial"} -> [out |-> "SyntaxError", cache |-> c]
      [] OTHER ->
           LET obj == InternalizeSync(c, "", f.doc)
           IN IF obj.t = "throw"
              THEN [out |-> "ShapeError", cache |-> c]
              ELSE [out |-> "true", cache |-> obj]

\* The body of loadSync once readFileSync has read the file as f, or has
\* thrown ENOENT
LoadSyncBody(c, f) ==
    CASE f.s = "absent" -> [out |-> "false", cache |-> c]
      [] f.s = "empty" -> [out |-> "false", cache |-> c]
      [] f.s \in {"malformed", "partial"} -> [out |-> "SyntaxError", cache |-> c]
      [] OTHER ->
           LET obj == InternalizeSync(c, "", f.doc)
           IN IF obj.t = "throw"
              THEN [out |-> "ShapeError", cache |-> c]
              ELSE [out |-> "true", cache |-> obj]

\* ------------------------------------------- the synchronous part of a call
\* What a mutating method does before it returns: whether it threw, the
\* cache it leaves, whether it called save, and whether the promise it
\* returns follows the promise of that save.
Res(threw, c, save, linked) ==
    [threw |-> threw, cache |-> c, save |-> save, linked |-> linked]

Elems == {Num("1"), Num("2")}
Keys == {"a"}
MapFns == {"one"}
Preds == {"notOne"}

\* the callbacks the model passes to map and filter
ApplyFn(f, x) == Num("1")
ApplyPred(p, x) == x # Num("1")

RECURSIVE SelectSeq2(_, _)
SelectSeq2(seq, p) ==
    IF seq = <<>> THEN <<>>
    ELSE IF ApplyPred(p, Head(seq))
         THEN <<Head(seq)>> \o SelectSeq2(Tail(seq), p)
         ELSE SelectSeq2(Tail(seq), p)

MapSeq(seq, f) == [i \in 1..Len(seq) |-> ApplyFn(f, seq[i])]

\* A faulty variant: add pushes the item whatever unique is
ArrayAddAlways(c, item, unique) ==
    IF c.t # "arr" THEN Res(TRUE, c, FALSE, FALSE)
    ELSE Res(FALSE, [c EXCEPT !.elems = Append(c.elems, item)], TRUE, TRUE)

\* ArrayFileManager.  On a cache that is no array (see load), includes,
\* push, map and filter are not functions: the call throws a TypeError.
ArrayAdd(c, item, unique) ==
    IF c.t # "arr" THEN Res(TRUE, c, FALSE, FALSE)
    ELSE IF (unique /\ ~Includes(c.elems, item)) \/ ~unique
    THEN Res(FALSE, [c EXCEPT !.elems = Append(c.elems, item)], TRUE, TRUE)
    ELSE Res(FALSE, c, TRUE, TRUE)

ArrayMap(c, f) ==
    IF c.t # "arr" THEN Res(TRUE, c, FALSE, FALSE)
    ELSE Res(FALSE, Arr(MapSeq(c.elems, f)), TRUE, TRUE)

ArrayFilter(c, p) ==
    IF c.t # "arr" THEN Res(TRUE, c, FALSE, FALSE)
    ELSE Res(FALSE, Arr(SelectSeq2(c.elems, p)), TRUE, TRUE)

\* A faulty variant: get reads this.cache[index]
ArrayGetNoWrap(c, index) ==
    IF c.t # "arr" THEN Throw
    ELSE IF index < 0 \/ index >= Len(c.elems) THEN Undefined
    ELSE c.elems[index + 1]

\* get: this.cache.at(index), for an integer index.  A negative index counts
\* from the end; outside the array at returns undefined.
ArrayGet(c, index) ==
    IF c.t # "arr" THEN Throw
    ELSE LET len == Len(c.elems)
             k == IF index >= 0 THEN index ELSE len + index
         IN IF k < 0 \/ k >= len THEN Undefined ELSE c.elems[k + 1]

\* A faulty variant: distinct returns a copy of the cache
ArrayDistinctCopy(c) ==
    CASE c.t = "arr" -> Arr(c.elems)
      [] c.t = "null" -> Arr(<<>>)
      [] OTHER -> Throw

\* distinct: Array.from(new Set(this.cache)).  new Set(null) is empty, and
\* a plain object is not iterable.
ArrayDistinct(c) ==
    CASE c.t = "arr" -> Arr(Uniq(c.elems))
      [] c.t = "null" -> Arr(<<>>)
      [] OTHER -> Throw

\* ArrayFileManager declares no delete: manager.delete(item) is a TypeError
ArrayDelete(c, item) == Res(TRUE, c, FALSE, FALSE)

\* ListFileManager.delete, of the line-based manager:
\* this.__cache = this.__cache.filter((cachedId) => cachedId !== text)
ListDelete(c, text) ==
    Res(FALSE, [c EXCEPT !.elems = Without(c.elems, text)], TRUE, TRUE)

\* SetFileManager
SetAdd(c, value) ==
    Res(FALSE,
        IF Includes(c.elems, value) THEN c
        ELSE [c EXCEPT !.elems = Append(c.elems, value)],
        TRUE, TRUE)

SetDelete(c, value) ==
    Res(FALSE, [c EXCEPT !.elems = Without(c.elems, value)], TRUE, TRUE)

SetMap(c, f) == Res(FALSE, SetOf(Uniq(MapSeq(c.elems, f))), TRUE, TRUE)

SetFilter(c, p) == Res(FALSE, SetOf(Uniq(SelectSeq2(c.elems, p))), TRUE, TRUE)

\* RecordFileManager.  On a cache that is null (see load) every property
\* access throws a TypeError.
RecordSet(c, key, value) ==
    IF c.t = "null" THEN Res(TRUE, c, FALSE, FALSE)
    ELSE Res(FALSE, RecordPut(c, key, value), TRUE, TRUE)

\* this.cache.hasOwnProperty(key): own properties only; on an object whose
\* prototype was set to null hasOwnProperty is not a function
RecordHas(c, key) == HasKey(c, key)

RecordAdd(c, key, value) ==
    IF c.t = "null" \/ (c.t = "obj" /\ c.elems = <<Null>>) THEN Res(TRUE, c, FALSE, FALSE)
    ELSE IF ~RecordHas(c, key) THEN RecordSet(c, key, value)
    ELSE Res(FALSE, c, FALSE, FALSE)

RecordDelete(c, key) ==
    IF c.t = "null" THEN Res(TRUE, c, FALSE, FALSE)
    ELSE Res(FALSE, DropKey(c, key), TRUE, TRUE)

\* MapFileManager
MapSet(c, key, value) == Res(FALSE, PutKey(c, key, value), TRUE, TRUE)

\* add calls set and drops the promise set returns
MapAdd(c, key, value) ==
    IF ~HasKey(c, key)
    THEN [MapSet(c, key, value) EXCEPT !.linked = FALSE]
    ELSE Res(FALSE, c, FALSE, FALSE)

MapDelete(c, key) == Res(FALSE, DropKey(c, key), TRUE, TRUE)

\* ------------------------------------------------------------ the queue
Settled(t) == t.st \in {"ok", "err"}

\* A faulty variant: set calls task() in the caller's turn when the lock is free,
\* so that save serializes and calls writeFile inside the mutating call
NewTaskInline(op, after) ==
    IF after = 0 \/ tasks[after].st \in {"ok", "err"}
    THEN [op |-> op, after |-> after, st |-> "run",
          ph |-> IF op = "save" THEN "write" ELSE "read",
          data |-> IF op = "save" THEN SaveText(kind, cache') ELSE Absent,
          pre |-> IF op = "save" THEN file.path ELSE Absent,
          out |-> "none", ran |-> TRUE]
    ELSE [op |-> op, after |-> after, st |-> "pending", ph |-> "none",
          data |-> Absent, pre |-> Absent, out |-> "none", ran |-> FALSE]

\* A task as queue.set leaves it: chained on the lock, not started
NewTask(op, after) ==
    [op |-> op, after |-> after, st |-> "pending", ph |-> "none",
     data |-> Absent, pre |-> Absent, out |-> "none", ran |-> FALSE]

\* A faulty variant: set never advances this.lock
NewLockStale(old, id) == old

\* PromiseQueue.set, `this.lock = next.then(() => undefined, () => undefined)`:
\* the lock now follows the task just scheduled, numbered id.
NewLock(old, id) == id

\* A faulty variant: set calls task() at once instead of chaining it on the lock
LockStateEager(ts, after) == "fulfilled"

\* A faulty variant: `this.lock = next`: the lock is rejected when the task it follows is
LockStateChained(ts, after) ==
    IF after = 0 THEN "fulfilled"
    ELSE IF ts[after].st = "ok" THEN "fulfilled"
    ELSE IF ts[after].st = "err" THEN "rejected"
    ELSE "pending"

\* The state of the lock a task was chained on (`this.lock.then(() => task())`):
\* both handlers of the lock return undefined, so it is fulfilled as soon as
\* the task it follows has settled, whichever way.
LockState(ts, after) ==
    IF after = 0 THEN "fulfilled"
    ELSE IF Settled(ts[after]) THEN "fulfilled"
    ELSE "pending"

\* A faulty variant: writeFile is not awaited: rename may be called at any time
RenameReadyNoAwait(ph) == ph \in {"write", "writing", "rename"}

\* `await fs.writeFile(...)` before fs.rename: rename is called once the
\* write has completed
RenameReady(ph) == ph = "rename"

\* fs.rename(src, dst) on the two entries
Rename(f, src, dst) ==
    IF src = dst THEN f ELSE [f EXCEPT ![dst] = f[src], ![src] = Absent]

\* the promise a call returned
CallPromise(i) ==
    LET c == calls[i]
    IN IF c.threw THEN "rejected"
       ELSE IF c.task = 0 \/ ~c.linked THEN "fulfilled"
       ELSE CASE tasks[c.task].st = "ok" -> "fulfilled"
              [] tasks[c.task].st = "err" -> "rejected"
              [] OTHER -> "pending"

\* ----------------------------------------------------------------- Init
Kinds == {"Array", "Set", "Record", "Map"}

\* new XFileManager(path): the default cache
Default(k) ==
    CASE k = "Array" -> Arr(<<>>)
      [] k = "Set" -> SetOf(<<>>)
      [] k = "Record" -> Obj(<<>>, <<>>)
      [] k = "Map" -> MapOf(<<>>, <<>>)

\* new XFileManager(path, init)
Given(k) ==
    CASE k = "Array" -> Arr(<<Num("1")>>)
      [] k = "Set" -> SetOf(<<Num("1")>>)
      [] k = "Record" -> Obj(<<"a">>, <<Num("1")>>)
      [] k = "Map" -> MapOf(<<"a">>, <<Num("1")>>)

NoLoad == [op |-> "none", raw |-> Absent, pre |-> Null, post |-> Null, out |-> "none"]

\* a second instance on which nothing is ever called
NoPeer == [cache |-> Null, tasks |-> <<>>, lock |-> 0]

\* Two instances as constructed: their class, their caches, and the file at
\* path.
InitPair(k, c, f, p) ==
    /\ peer = p
    /\ kind = k
    /\ cache0 = c
    /\ path0 = f
    /\ cache = c
    /\ file = [path |-> f, tmp |-> Absent]
    /\ tasks = <<>>
    /\ lock = 0
    /\ calls = <<>>
    /\ held = {SaveText(k, c)}
    /\ fails = 0
    /\ crashed = FALSE
    /\ lastLoad = NoLoad

\* The instance as constructed: its class, its cache, and the file at path.
InitWith(k, c, f) == InitPair(k, c, f, NoPeer)

\* A default cache over no file, over a JSON array and over a JSON object;
\* a given cache over no file.
Init ==
    \E k \in Kinds :
        \/ \E f \in {Absent, Doc(Arr(<<Num("2")>>)), Doc(Obj(<<"a">>, <<Num("2")>>))} :
             InitWith(k, Default(k), f)
        \/ InitWith(k, Given(k), Absent)

\* -------------------------------------------------------------- calls
\* A call: the method, its arguments (key k, value x, index i), the task it
\* scheduled, whether the promise it returned follows that task, whether it
\* threw, the cache it left and, for a query, the value it returned.
NewCall(op, k, x, task, linked, threw, post) ==
    [op |-> op, k |-> k, x |-> x, i |-> 0, task |-> task, linked |-> linked,
     threw |-> threw, post |-> post, ret |-> Undefined]

CanCall == ~crashed /\ Len(calls) < MaxCalls

\* queue.set(task) from load or save: schedules the task and returns its promise
Schedule(op) ==
    /\ CanCall
    /\ UNCHANGED <<peer, kind, cache0, path0, cache, file, held, fails, crashed, lastLoad>>
    /\ tasks' = Append(tasks, NewTask(op, lock))
    /\ lock' = NewLock(lock, Len(tasks) + 1)
    /\ calls' = Append(calls, NewCall(op, "", Null, Len(tasks) + 1, TRUE, FALSE, cache))

load == Schedule("load")

save == Schedule("save")

\* A mutating method: the synchronous part r, then save() when r calls it.
Mutate(op, k, x, r) ==
    /\ CanCall
    /\ cache' = r.cache
    /\ held' = held \cup {SaveText(kind, r.cache)}
    /\ IF r.save
       THEN /\ tasks' = Append(tasks, NewTask("save", lock))
            /\ lock' = NewLock(lock, Len(tasks) + 1)
       ELSE UNCHANGED <<tasks, lock>>
    /\ calls' = Append(calls, NewCall(op, k, x, IF r.save THEN Len(tasks) + 1 ELSE 0,
                                      r.linked, r.threw, r.cache))
    /\ UNCHANGED <<peer, kind, cache0, path0, file, fails, crashed, lastLoad>>

add ==
    \/ /\ kind = "Array"
       /\ \E x \in Elems, unique \in BOOLEAN :
            Mutate(IF unique THEN "add" ELSE "addDup", "", x, ArrayAdd(cache, x, unique))
    \/ /\ kind = "Set"
       /\ \E x \in Elems : Mutate("add", "", x, SetAdd(cache, x))
    \/ /\ kind = "Record"
       /\ \E k \in Keys, x \in Elems : Mutate("add", k, x, RecordAdd(cache, k, x))
    \/ /\ kind = "Map"
       /\ \E k \in Keys, x \in Elems : Mutate("add", k, x, MapAdd(cache, k, x))

set ==
    \/ /\ kind = "Record"
       /\ \E k \in Keys, x \in Elems : Mutate("set", k, x, RecordSet(cache, k, x))
    \/ /\ kind = "Map"
       /\ \E k \in Keys, x \in Elems : Mutate("set", k, x, MapSet(cache, k, x))

delete ==
    \/ /\ kind = "Set"
       /\ \E x \in Elems : Mutate("delete", "", x, SetDelete(cache, x))
    \/ /\ kind = "Record"
       /\ \E k \in Keys : Mutate("delete", k, Null, RecordDelete(cache, k))
    \/ /\ kind = "Map"
       /\ \E k \in Keys : Mutate("delete", k, Null, MapDelete(cache, k))

map ==
    \/ /\ kind = "Array"
       /\ \E f \in MapFns : Mutate("map", "", Null, ArrayMap(cache, f))
    \/ /\ kind = "Set"
       /\ \E f \in MapFns : Mutate("map", "", Null, SetMap(cache, f))

filter ==
    \/ /\ kind = "Array"
       /\ \E p \in Preds : Mutate("filter", "", Null, ArrayFilter(cache, p))
    \/ /\ kind = "Set"
       /\ \E p \in Preds : Mutate("filter", "", Null, SetFilter(cache, p))

\* loadSync: readFileSync and the body, in the caller's turn.  A read may
\* fail with an error that is not ENOENT.
loadSync ==
    /\ CanCall
    /\ \E io \in {TRUE, FALSE} :
         /\ io => fails < MaxFails
         /\ fails' = IF io THEN fails + 1 ELSE fails
         /\ LET r == IF io THEN [out |-> "IOError", cache |-> cache]
                     ELSE LoadSyncBody(cache, file.path)
            IN /\ cache' = r.cache
               /\ held' = held \cup {SaveText(kind, r.cache)}
               /\ lastLoad' = IF io THEN lastLoad
                               ELSE [op |-> "loadSync", raw |-> file.path, pre |-> cache,
                                     post |-> r.cache, out |-> r.out]
               /\ calls' = Append(calls, NewCall("loadSync", "", Null, 0, FALSE,
                                                 r.out \notin {"true", "false"}, r.cache))
    /\ UNCHANGED <<peer, kind, cache0, path0, file, tasks, lock, crashed>>

\* ------------------------------------------------------------- tasks
\* The lock a task was chained on has settled: the task body starts.  save
\* serializes the cache and calls writeFile; load calls readFile.  (Were
\* the lock rejected, `then` would skip the task and pass the rejection on.)
StartTask(i) ==
    /\ ~crashed
    /\ tasks[i].st = "pending"
    /\ LockState(tasks, tasks[i].after) # "pending"
    /\ tasks' =
         IF LockState(tasks, tasks[i].after) = "rejected"
         THEN [tasks EXCEPT ![i].st = "err", ![i].out = tasks[tasks[i].after].out]
         ELSE IF tasks[i].op = "save"
         THEN [tasks EXCEPT ![i].st = "run", ![i].ran = TRUE, ![i].ph = "write",
                            ![i].data = SaveText(kind, cache), ![i].pre = file.path]
         ELSE [tasks EXCEPT ![i].st = "run", ![i].ran = TRUE, ![i].ph = "read"]
    /\ UNCHANGED <<peer, kind, cache0, path0, cache, file, lock, calls, held, fails, crashed, lastLoad>>

\* fs.writeFile(tmpPath, text) is not atomic: the entry first holds a prefix
SaveWrite(i) ==
    /\ ~crashed
    /\ tasks[i].st = "run" /\ tasks[i].ph = "write"
    /\ file' = [file EXCEPT ![TmpPath] = Partial(tasks[i].data.doc)]
    /\ tasks' = [tasks EXCEPT ![i].ph = "writing"]
    /\ UNCHANGED <<peer, kind, cache0, path0, cache, lock, calls, held, fails, crashed, lastLoad>>

\* writeFile resolves; the task calls fs.rename(tmpPath, this.path)
SaveWritten(i) ==
    /\ ~crashed
    /\ tasks[i].st = "run" /\ tasks[i].ph = "writing"
    /\ file' = [file EXCEPT ![TmpPath] = tasks[i].data]
    /\ tasks' = [tasks EXCEPT ![i].ph = "rename"]
    /\ UNCHANGED <<peer, kind, cache0, path0, cache, lock, calls, held, fails, crashed, lastLoad>>

\* rename happens, atomically, and the task resolves; with no entry to
\* rename it fails (ENOENT) and the task rejects
SaveRename(i) ==
    /\ ~crashed
    /\ tasks[i].st = "run" /\ RenameReady(tasks[i].ph)
    /\ IF file[TmpPath].s = "absent"
       THEN /\ tasks' = [tasks EXCEPT ![i].st = "err", ![i].out = "IOError"]
            /\ UNCHANGED file
       ELSE /\ file' = Rename(file, TmpPath, "path")
            /\ tasks' = [tasks EXCEPT ![i].st = "ok", ![i].ph = "none", ![i].out = "void"]
    /\ UNCHANGED <<peer, kind, cache0, path0, cache, lock, calls, held, fails, crashed, lastLoad>>

\* writeFile or rename fails: the task rejects where it stands
SaveFail(i) ==
    /\ ~crashed
    /\ fails < MaxFails
    /\ tasks[i].st = "run" /\ tasks[i].ph \in {"write", "writing", "rename"}
    /\ fails' = fails + 1
    /\ tasks' = [tasks EXCEPT ![i].st = "err", ![i].out = "IOError"]
    /\ UNCHANGED <<peer, kind, cache0, path0, cache, file, lock, calls, held, crashed, lastLoad>>

\* fs.readFile reads the file at path
LoadRead(i) ==
    /\ ~crashed
    /\ tasks[i].st = "run" /\ tasks[i].ph = "read"
    /\ tasks' = [tasks EXCEPT ![i].ph = "parse", ![i].data = file.path]
    /\ UNCHANGED <<peer, kind, cache0, path0, cache, file, lock, calls, held, fails, crashed, lastLoad>>

\* readFile fails with an error that is not ENOENT
LoadFail(i) ==
    /\ ~crashed
    /\ fails < MaxFails
    /\ tasks[i].st = "run" /\ tasks[i].ph = "read"
    /\ fails' = fails + 1
    /\ tasks' = [tasks EXCEPT ![i].st = "err", ![i].out = "IOError"]
    /\ UNCHANGED <<peer, kind, cache0, path0, cache, file, lock, calls, held, crashed, lastLoad>>

\* readFile resolves: trim, JSON.parse with the reviver, assign, return
LoadFinish(i) ==
    /\ ~crashed
    /\ tasks[i].st = "run" /\ tasks[i].ph = "parse"
    /\ LET r == LoadBody(cache, tasks[i].data)
       IN /\ cache' = r.cache
          /\ held' = held \cup {SaveText(kind, r.cache)}
          /\ lastLoad' = [op |-> "load", raw |-> tasks[i].data, pre |-> cache,
                          post |-> r.cache, out |-> r.out]
          /\ tasks' = [tasks EXCEPT ![i].st = IF r.out \in {"true", "false"}
                                               THEN "ok" ELSE "err",
                                    ![i].ph = "none", ![i].out = r.out]
    /\ UNCHANGED <<peer, kind, cache0, path0, file, lock, calls, fails, crashed>>

\* The process dies while a task is running; the files stay as they are.
\* (A crash while nothing runs leaves the same files as the state it is in.)
Crash ==
    /\ ~crashed
    /\ \E i \in 1..Len(tasks) : tasks[i].st = "run"
    /\ crashed' = TRUE
    /\ UNCHANGED <<peer, kind, cache0, path0, cache, file, tasks, lock, calls, held, fails, lastLoad>>

Tasks == 1..Len(tasks)

Next ==
    \/ load
    \/ loadSync
    \/ save
    \/ add
    \/ set
    \/ delete
    \/ map
    \/ filter
    \/ \E i \in Tasks : StartTask(i)
    \/ \E i \in Tasks : SaveWrite(i)
    \/ \E i \in Tasks : SaveWritten(i)
    \/ \E i \in Tasks : SaveRename(i)
    \/ \E i \in Tasks : SaveFail(i)
    \/ \E i \in Tasks : LoadRead(i)
    \/ \E i \in Tasks : LoadFail(i)
    \/ \E i \in Tasks : LoadFinish(i)
    \/ Crash

Spec == Init /\ [][Next]_vars

\* ------------------------------------------------- loading, on its own
\* what a file may hold: nothing, white space, text that is not JSON, and
\* a JSON document of every top-level type, with a member named "" at the
\* first and at the second level
LoadFiles ==
    {Absent, Empty, Malformed,
     Doc(Arr(<<Num("1"), Num("2"), Num("1")>>)),
     Doc(Obj(<<"a">>, <<Num("2")>>)),
     Doc(Obj(<<"">>, <<Num("1")>>)),
     Doc(Arr(<<Obj(<<"">>, <<Arr(<<Num("1")>>)>>)>>)),
     Doc(Null), Doc(Str("x")), Doc(Num("1")), Doc(Bool("true"))}

LoadInit ==
    \E k \in Kinds : \E c \in {Default(k), Given(k)} : \E f \in LoadFiles :
        InitWith(k, c, f)

LoadNext ==
    \/ load
    \/ loadSync
    \/ \E i \in Tasks : StartTask(i)
    \/ \E i \in Tasks : LoadRead(i)
    \/ \E i \in Tasks : LoadFail(i)
    \/ \E i \in Tasks : LoadFinish(i)

\* an instance on which only load and loadSync are called
LoadSpec == LoadInit /\ [][LoadNext]_vars

\* ------------------------------------------------- saving, on its own
\* JSON-representable caches of each kind: the empty container, elements
\* and keys out of order and repeated, nested containers, and a member
\* whose key is the empty string
RoundTripCaches(k) ==
    CASE k = "Array" ->
           {Arr(<<>>), Arr(<<Num("2"), Num("1"), Num("2")>>),
            Arr(<<Arr(<<Num("1")>>), Str("x"), Null>>),
            Arr(<<Obj(<<"">>, <<Num("1")>>)>>)}
      [] k = "Set" ->
           {SetOf(<<>>), SetOf(<<Num("2"), Num("1")>>),
            SetOf(<<Arr(<<Num("1")>>), Str("x"), Null>>),
            SetOf(<<Obj(<<"">>, <<Arr(<<Num("1")>>)>>)>>)}
      [] k = "Record" ->
           {Obj(<<>>, <<>>), Obj(<<"b", "a">>, <<Num("1"), Arr(<<Num("2")>>)>>),
            Obj(<<"a">>, <<Obj(<<"b">>, <<Null>>)>>),
            Obj(<<"">>, <<Num("1")>>)}
      [] k = "Map" ->
           {MapOf(<<>>, <<>>), MapOf(<<"b", "a">>, <<Num("1"), Arr(<<Num("2")>>)>>),
            MapOf(<<"a">>, <<Obj(<<"b">>, <<Null>>)>>),
            MapOf(<<"">>, <<Num("1")>>)}

RoundTripInit ==
    \E k \in Kinds : \E c \in RoundTripCaches(k) : InitWith(k, c, Absent)

RoundTripNext ==
    \/ save
    \/ \E i \in Tasks : StartTask(i)
    \/ \E i \in Tasks : SaveWrite(i)
    \/ \E i \in Tasks : SaveWritten(i)
    \/ \E i \in Tasks : SaveRename(i)
    \/ \E i \in Tasks : SaveFail(i)

\* an instance holding a value, on which only save is called
RoundTripSpec == RoundTripInit /\ [][RoundTripNext]_vars

\* ------------------------------------------- keyed managers, on their own
KeyedKinds == {"Record", "Map"}
KeyedKeys == {"a", "__proto__"}
KeyedVals == {Num("1"), Num("2"), Obj(<<"a">>, <<Num("1")>>), Obj(<<"a">>, <<Num("2")>>)}

KeyedInit ==
    \E k \in KeyedKinds : \E c \in {Default(k), Given(k)} : InitWith(k, c, Absent)

\* add, set and delete of RecordFileManager and MapFileManager, for any key
KeyedAdd ==
    \E k \in KeyedKeys, x \in KeyedVals :
        Mutate("add", k, x, IF kind = "Record" THEN RecordAdd(cache, k, x)
                                               ELSE MapAdd(cache, k, x))

KeyedSet ==
    \E k \in KeyedKeys, x \in KeyedVals :
        Mutate("set", k, x, IF kind = "Record" THEN RecordSet(cache, k, x)
                                               ELSE MapSet(cache, k, x))

KeyedDelete ==
    \E k \in KeyedKeys :
        Mutate("delete", k, Null, IF kind = "Record" THEN RecordDelete(cache, k)
                                                     ELSE MapDelete(cache, k))

KeyedNext == KeyedAdd \/ KeyedSet \/ KeyedDelete

\* a keyed manager on which add, set and delete are called
KeyedSpec == KeyedInit /\ [][KeyedNext]_vars

\* ------------------------------------------- the Array manager, on its own
\* two objects of the same content the caller holds references to
Ref1 == Mk("obj", "#1", <<>>, <<"a">>, <<Num("1")>>)
Ref2 == Mk("obj", "#2", <<>>, <<"a">>, <<Num("1")>>)

ArrayItems == {Num("1"), Num("2"), Str("x"), Str("y"), Ref1, Ref2}

ArrayCaches ==
    {Arr(<<>>),
     Arr(<<Num("1"), Num("2"), Num("2"), Num("3"), Num("1")>>),
     Arr(<<Str("x"), Str("y")>>),
     Arr(<<Ref1, Str("y"), Ref1>>)}

Indices == (0 - MaxIndex)..MaxIndex

ArrayInit == \E c \in ArrayCaches : InitWith("Array", c, Absent)

\* add(item, unique), for any item
ArrayAddItem ==
    \E x \in ArrayItems, unique \in BOOLEAN :
        Mutate(IF unique THEN "add" ELSE "addDup", "", x, ArrayAdd(cache, x, unique))

\* a method that returns a value and calls nothing else
Query(op, i, r) ==
    /\ CanCall
    /\ calls' = Append(calls, [NewCall(op, "", Null, 0, FALSE, r = Throw, cache)
                                 EXCEPT !.i = i, !.ret = r])
    /\ UNCHANGED <<peer, kind, cache0, path0, cache, file, tasks, lock, held, fails, crashed,
                   lastLoad>>

get == \E index \in Indices : Query("get", index, ArrayGet(cache, index))

distinct == Query("distinct", 0, ArrayDistinct(cache))

\* delete(item), called on an ArrayFileManager
ArrayDeleteItem ==
    \E x \in ArrayItems : Mutate("delete", "", x, ArrayDelete(cache, x))

ArrayNext == ArrayAddItem \/ get \/ distinct \/ ArrayDeleteItem

\* an ArrayFileManager on which add, get, distinct and delete are called
ArraySpec == ArrayInit /\ [][ArrayNext]_vars

\* ------------------------------------------------- the queue, kept running
\* load and save are called, in any order, and the process does not crash
LiveNext ==
    \/ load
    \/ save
    \/ \E i \in Tasks : StartTask(i)
    \/ \E i \in Tasks : SaveWrite(i)
    \/ \E i \in Tasks : SaveWritten(i)
    \/ \E i \in Tasks : SaveRename(i)
    \/ \E i \in Tasks : SaveFail(i)
    \/ \E i \in Tasks : LoadRead(i)
    \/ \E i \in Tasks : LoadFail(i)
    \/ \E i \in Tasks : LoadFinish(i)

\* The reaction a settled lock has queued is run by the job queue, and each
\* file-system call a task awaits completes; whether it fails is left open.
Fairness ==
    /\ WF_vars(\E i \in Tasks : StartTask(i))
    /\ WF_vars(\E i \in Tasks : SaveWrite(i))
    /\ WF_vars(\E i \in Tasks : SaveWritten(i))
    /\ WF_vars(\E i \in Tasks : SaveRename(i))
    /\ WF_vars(\E i \in Tasks : LoadRead(i))
    /\ WF_vars(\E i \in Tasks : LoadFinish(i))

LiveSpec == Init /\ [][LiveNext]_vars /\ Fairness

\* ------------------------------------------- two instances on one path
\* everything of the first instance
OwnVars == <<kind, cache0, path0, cache, tasks, lock, calls, held, fails, crashed, lastLoad>>

PeerTasks == 1..Len(peer.tasks)

\* A faulty variant: the queue is shared by the instances: a task also waits for
\* the tasks of the other instance
PeerLockStateShared(ts, after) ==
    IF \E i \in Tasks : tasks[i].st = "run" THEN "pending"
    ELSE IF after = 0 THEN "fulfilled"
    ELSE IF Settled(ts[after]) THEN "fulfilled"
    ELSE "pending"

\* `protected readonly queue: PromiseQueue = new PromiseQueue()`: the lock of
\* the second instance follows the tasks of its own queue only
PeerLockState(ts, after) == LockState(ts, after)

\* queue.set(task) from load or save of the second instance
PeerSchedule(op) ==
    /\ Len(peer.tasks) < MaxCalls
    /\ peer' = [peer EXCEPT !.tasks = Append(peer.tasks, NewTask(op, peer.lock)),
                            !.lock = NewLock(peer.lock, Len(peer.tasks) + 1)]
    /\ UNCHANGED <<OwnVars, file>>

PeerLoad == PeerSchedule("load")

PeerSave == PeerSchedule("save")

\* the steps of a task of the second instance, on the same two entries
PeerStartTask(i) ==
    /\ peer.tasks[i].st = "pending"
    /\ PeerLockState(peer.tasks, peer.tasks[i].after) # "pending"
    /\ peer' =
         IF peer.tasks[i].op = "save"
         THEN [peer EXCEPT !.tasks[i].st = "run", !.tasks[i].ran = TRUE,
                           !.tasks[i].ph = "write",
                           !.tasks[i].data = SaveText(kind, peer.cache),
                           !.tasks[i].pre = file.path]
         ELSE [peer EXCEPT !.tasks[i].st = "run", !.tasks[i].ran = TRUE,
                           !.tasks[i].ph = "read"]
    /\ UNCHANGED <<OwnVars, file>>

PeerSaveWrite(i) ==
    /\ peer.tasks[i].st = "run" /\ peer.tasks[i].ph = "write"
    /\ file' = [file EXCEPT ![TmpPath] = Partial(peer.tasks[i].data.doc)]
    /\ peer' = [peer EXCEPT !.tasks[i].ph = "writing"]
    /\ UNCHANGED OwnVars

PeerSaveWritten(i) ==
    /\ peer.tasks[i].st = "run" /\ peer.tasks[i].ph = "writing"
    /\ file' = [file EXCEPT ![TmpPath] = peer.tasks[i].data]
    /\ peer' = [peer EXCEPT !.tasks[i].ph = "rename"]
    /\ UNCHANGED OwnVars

PeerSaveRename(i) ==
    /\ peer.tasks[i].st = "run" /\ RenameReady(peer.tasks[i].ph)
    /\ IF file[TmpPath].s = "absent"
       THEN /\ peer' = [peer EXCEPT !.tasks[i].st = "err", !.tasks[i].out = "IOError"]
            /\ UNCHANGED file
       ELSE /\ file' = Rename(file, TmpPath, "path")
            /\ peer' = [peer EXCEPT !.tasks[i].st = "ok", !.tasks[i].ph = "none",
                                    !.tasks[i].out = "void"]
    /\ UNCHANGED OwnVars

PeerLoadRead(i) ==
    /\ peer.tasks[i].st = "run" /\ peer.tasks[i].ph = "read"
    /\ peer' = [peer EXCEPT !.tasks[i].ph = "parse", !.tasks[i].data = file.path]
    /\ UNCHANGED <<OwnVars, file>>

PeerLoadFinish(i) ==
    /\ peer.tasks[i].st = "run" /\ peer.tasks[i].ph = "parse"
    /\ LET r == LoadBody(peer.cache, peer.tasks[i].data)
       IN peer' = [peer EXCEPT !.cache = r.cache,
                               !.tasks[i].st = IF r.out \in {"true", "false"}
                                               THEN "ok" ELSE "err",
                               !.tasks[i].ph = "none", !.tasks[i].out = r.out]
    /\ UNCHANGED <<OwnVars, file>>

\* two instances of one class over one path, the first with the default
\* cache and the second with an initial value
PairInit ==
    \E k \in {"Array", "Map"} :
        InitPair(k, Default(k), Absent, [cache |-> Given(k), tasks |-> <<>>, lock |-> 0])

PairNext ==
    \/ load
    \/ save
    \/ \E i \in Tasks : StartTask(i)
    \/ \E i \in Tasks : SaveWrite(i)
    \/ \E i \in Tasks : SaveWritten(i)
    \/ \E i \in Tasks : SaveRename(i)
    \/ \E i \in Tasks : LoadRead(i)
    \/ \E i \in Tasks : LoadFinish(i)
    \/ PeerLoad
    \/ PeerSave
    \/ \E i \in PeerTasks : PeerStartTask(i)
    \/ \E i \in PeerTasks : PeerSaveWrite(i)
    \/ \E i \in PeerTasks : PeerSaveWritten(i)
    \/ \E i \in PeerTasks : PeerSaveRename(i)
    \/ \E i \in PeerTasks : PeerLoadRead(i)
    \/ \E i \in PeerTasks : PeerLoadFinish(i)

PairSpec == PairInit /\ [][PairNext]_vars

\* ------------------------------------------- a mutation behind a load
\* load() has been called, nothing else, and its task has not started
LoadPending ==
    /\ Len(calls) = 1
    /\ calls[1].op = "load"
    /\ tasks[1].st = "pending"

RaceInit ==
    \E k \in Kinds :
        \E f \in {Absent, Empty, Doc(Arr(<<Num("2")>>)), Doc(Obj(<<"a">>, <<Num("2")>>))} :
            InitWith(k, Default(k), f)

\* load(), then add or set before the task of the load runs, then the tasks
RaceNext ==
    \/ calls = <<>> /\ load
    \/ LoadPending /\ add
    \/ LoadPending /\ set
    \/ \E i \in Tasks : StartTask(i)
    \/ \E i \in Tasks : SaveWrite(i)
    \/ \E i \in Tasks : SaveWritten(i)
    \/ \E i \in Tasks : SaveRename(i)
    \/ \E i \in Tasks : LoadRead(i)
    \/ \E i \in Tasks : LoadFinish(i)

RaceSpec == RaceInit /\ [][RaceNext]_vars

\* ------------------------------------------- saving and mutating, no load
SnapNext ==
    \/ save
    \/ add
    \/ set
    \/ delete
    \/ map
    \/ filter
    \/ \E i \in Tasks : StartTask(i)
    \/ \E i \in Tasks : SaveWrite(i)
    \/ \E i \in Tasks : SaveWritten(i)
    \/ \E i \in Tasks : SaveRename(i)
    \/ \E i \in Tasks : SaveFail(i)

\* an instance that is never loaded and does not crash
SnapSpec == Init /\ [][SnapNext]_vars

\* ================================================================ claims
Running(i) == tasks[i].st = "run"

\* C1: at most one task of the instance's queue is executing at any moment,
\* however many are scheduled.
C1_OneAtATime == Cardinality({i \in Tasks : Running(i)}) <= 1

\* two tasks were scheduled back to back; the first runs, the second waits
C1_Witness ==
    /\ Len(tasks) >= 2
    /\ Running(1)
    /\ tasks[2].st = "pending"

\* C2: tasks start in the order scheduled: a task has started only if every
\* task scheduled before it has settled, for every mix of load and save.
C2_Fifo ==
    \A i \in Tasks : \A j \in Tasks :
        (i < j /\ tasks[j].st # "pending") => Settled(tasks[i])

\* a MapFileManager: a load, then the overridden save, which has started
C2_Witness ==
    /\ kind = "Map"
    /\ Len(tasks) >= 2
    /\ tasks[1].op = "load" /\ Settled(tasks[1])
    /\ tasks[2].op = "save" /\ Running(2)

\* C3 as stated: at every moment path is absent or holds the complete
\* serialization of a value the cache held at some earlier moment.
C3_AbsentOrHeld == file.path = Absent \/ file.path \in held

\* C3 amended: path never holds a partially written document: it is absent,
\* or still what it held when the instance was constructed, or the complete
\* serialization of a value the cache has held.
C3_NeverPartial ==
    /\ file.path.s # "partial"
    /\ file.path = Absent \/ file.path = path0 \/ file.path \in held

\* a second save is half way through writing the temporary file, while path
\* holds the document of the first save, which the cache has since left
C3_Witness ==
    /\ file.tmp.s = "partial"
    /\ file.path \in held
    /\ file.path # path0
    /\ file.path # SaveText(kind, cache)

\* every call so far is save() or a mutating method that returned the
\* promise of its save
OnlySaves ==
    \A i \in 1..Len(calls) :
        calls[i].op \notin {"load", "loadSync"} /\ calls[i].task # 0 /\ calls[i].linked

\* C4: N saves issued without awaiting, and no I/O failure: no promise
\* rejects, and once all have resolved path holds the serialization of the
\* final cache.
C4_AllSavesLand ==
    (Len(calls) >= 2 /\ OnlySaves /\ fails = 0) =>
        /\ \A i \in 1..Len(calls) : CallPromise(i) # "rejected"
        /\ (\A i \in 1..Len(calls) : CallPromise(i) = "fulfilled")
               => file.path = SaveText(kind, cache)

\* two saves, both resolved, the second of a cache the first did not see
C4_Witness ==
    /\ Len(calls) >= 2 /\ OnlySaves /\ fails = 0
    /\ \A i \in 1..Len(calls) : CallPromise(i) = "fulfilled"
    /\ tasks[1].data # tasks[2].data

\* C5: a task that rejects does not block the queue and its rejection
\* reaches no other task: every settled task ran its own body, and a pending
\* task whose predecessors have all settled, some by rejecting, can start.
C5_FailureIsolated ==
    /\ \A i \in Tasks : Settled(tasks[i]) => tasks[i].ran
    /\ \A j \in Tasks :
         (/\ ~crashed
          /\ tasks[j].st = "pending"
          /\ \A i \in 1..(j - 1) : Settled(tasks[i]))
            => ENABLED StartTask(j)

\* a task rejected and the task scheduled after it ran and resolved
C5_Witness ==
    \E i \in Tasks : \E j \in Tasks :
        /\ i < j
        /\ tasks[i].st = "err"
        /\ tasks[j].st = "ok" /\ tasks[j].ran

\* C6: from the moment a save starts until its rename has completed, and
\* when it fails instead, path holds what it held when the save started;
\* a crash in between leaves it so.
C6_PathUntouched ==
    \A i \in Tasks :
        (/\ tasks[i].op = "save"
         /\ \/ Running(i)
            \/ tasks[i].st = "err" /\ \A j \in Tasks : j > i => tasks[j].st = "pending")
        => file.path = tasks[i].pre

\* the process crashed with the temporary file written and not yet renamed:
\* path still holds the older document
C6_Witness ==
    /\ crashed
    /\ \E i \in Tasks :
         /\ tasks[i].op = "save" /\ Running(i)
         /\ file.tmp = tasks[i].data
         /\ file.path # tasks[i].data
         /\ file.path = tasks[i].pre

Mutating(op) == op \in {"add", "addDup", "set", "delete", "map", "filter"}

\* C7: every mutating call that changed the cache and triggered a save
\* rejects when that save fails, and the mutation it made stays in the cache.
C7_SaveErrorPropagates ==
    \A i \in 1..Len(calls) :
        (/\ Mutating(calls[i].op)
         /\ calls[i].task # 0
         /\ tasks[calls[i].task].st = "err")
        => /\ CallPromise(i) = "rejected"
           /\ (i = Len(calls) /\ \A j \in Tasks : tasks[j].op = "save")
                  => cache = calls[i].post

\* the scenario of C8: an empty keyed cache, add("a", 1) then add("a", 2),
\* both promises resolved
C8_Scenario ==
    /\ kind \in {"Record", "Map"}
    /\ cache0 = Default(kind)
    /\ Len(calls) = 2
    /\ calls[1].op = "add" /\ calls[1].k = "a" /\ calls[1].x = Num("1")
    /\ calls[2].op = "add" /\ calls[2].k = "a" /\ calls[2].x = Num("2")
    /\ CallPromise(1) = "fulfilled"
    /\ CallPromise(2) = "fulfilled"

\* C8: in that scenario get("a") is 1, and so it is after a reload from disk
\* at that point, by the instance itself or by a fresh instance.
C8_AddKeepsFirst ==
    C8_Scenario =>
        /\ KeyedGet(cache, "a") = Num("1")
        /\ KeyedGet(LoadBody(cache, file.path).cache, "a") = Num("1")
        /\ KeyedGet(LoadBody(Default(kind), file.path).cache, "a") = Num("1")

\* the top-level JSON value is not the one the manager's kind is saved as
ShapeDisagrees(k, d) ==
    \/ k \in {"Array", "Set"} /\ d.t # "arr"
    \/ k \in {"Record", "Map"} /\ d.t # "obj"

\* C9: a Set, Record or Map manager whose load read a document of the wrong
\* top-level shape threw a shape-mismatch error and left the cache as it was.
C9_ShapeMismatchRejected ==
    (/\ kind \in {"Set", "Record", "Map"}
     /\ lastLoad.op = "load"
     /\ lastLoad.raw.s = "doc"
     /\ ShapeDisagrees(kind, lastLoad.raw.doc))
    => /\ lastLoad.out = "ShapeError"
       /\ lastLoad.post = lastLoad.pre

\* C10: an Array manager whose load or loadSync read malformed JSON or a
\* document that is no array failed and left the cache as it was, so that
\* the cache of an Array manager is always an array.
C10_SequenceStaysSequence ==
    kind = "Array" =>
        /\ cache.t = "arr"
        /\ (/\ lastLoad.op \in {"load", "loadSync"}
            /\ \/ lastLoad.raw.s = "malformed"
               \/ lastLoad.raw.s = "doc" /\ ShapeDisagrees(kind, lastLoad.raw.doc))
           => /\ lastLoad.out \in {"SyntaxError", "ShapeError"}
              /\ lastLoad.post = lastLoad.pre

\* C11: a load that found no file at path, or a file with no content,
\* returned false (its promise resolved, nothing was thrown) and left the
\* cache exactly as it was, default or caller-supplied.
C11_NothingToLoad ==
    /\ (lastLoad.op = "load" /\ lastLoad.raw.s \in {"absent", "empty"}) =>
           /\ lastLoad.out = "false"
           /\ lastLoad.post = lastLoad.pre
    /\ \A i \in Tasks :
         (tasks[i].op = "load" /\ Settled(tasks[i]) /\ tasks[i].data.s \in {"absent", "empty"}
          /\ tasks[i].out # "IOError")
            => tasks[i].st = "ok" /\ tasks[i].out = "false"

\* a manager constructed with an initial value loaded from a path with no
\* file: the promise resolved with false and the cache is the initial value
C11_Witness ==
    /\ cache0 # Default(kind)
    /\ lastLoad.op = "load"
    /\ lastLoad.raw = Absent
    /\ lastLoad.out = "false"
    /\ cache = cache0
    /\ Len(calls) >= 1 /\ calls[1].op = "load" /\ CallPromise(1) = "fulfilled"

Pairs(v) == {<<v.keys[i], v.vals[i]>> : i \in 1..Len(v.keys)}

\* equivalent in-memory values of a kind: the same elements in the same
\* order (Array), the same set of elements (Set), the same key/value pairs
\* (Record, Map)
Equivalent(k, a, b) ==
    CASE k = "Array" -> a.t = "arr" /\ b.t = "arr" /\ a.elems = b.elems
      [] k = "Set" ->
           /\ a.t = "set" /\ b.t = "set"
           /\ {a.elems[i] : i \in 1..Len(a.elems)} = {b.elems[i] : i \in 1..Len(b.elems)}
      [] k = "Record" -> a.t = "obj" /\ b.t = "obj" /\ Pairs(a) = Pairs(b)
      [] k = "Map" -> a.t = "map" /\ b.t = "map" /\ Pairs(a) = Pairs(b)

\* C12: once a save of the cache has succeeded, load on a fresh instance of
\* the same kind bound to the same path returns true and leaves that
\* instance with a value equivalent to the saved one, for every kind and
\* every JSON-representable value.
C12_RoundTrip ==
    (\E i \in Tasks : tasks[i].op = "save" /\ tasks[i].st = "ok") =>
        LET r == LoadBody(Default(kind), file.path)
        IN /\ r.out = "true"
           /\ Equivalent(kind, r.cache, cache)

\* two mutating calls, each of which scheduled a save, and no other call
C13_Scenario ==
    /\ Len(calls) = 2
    /\ Mutating(calls[1].op) /\ calls[1].task = 1
    /\ Mutating(calls[2].op) /\ calls[2].task = 2

\* a call schedules its task and starts none: the tasks already there are
\* as they were and the new one is pending
C13_CallStartsNothing ==
    Len(calls') > Len(calls) =>
        /\ \A i \in 1..Len(tasks) : tasks'[i] = tasks[i]
        /\ \A i \in (Len(tasks) + 1)..Len(tasks') : tasks'[i].st = "pending"

\* a save that starts when both calls have been made serializes the cache
\* the second mutation left
C13_SavesSeeBoth ==
    \A i \in Tasks :
        (C13_Scenario /\ tasks[i].st = "pending" /\ tasks'[i].st = "run")
            => tasks'[i].data = SaveText(kind, calls[2].post)

\* once both saves have resolved the file holds the serialization of the
\* cache after the second mutation; when both calls were add or set, with
\* the entry of each
C13_BothOnDisk ==
    (C13_Scenario /\ tasks[1].st = "ok" /\ tasks[2].st = "ok") =>
        /\ cache = calls[2].post
        /\ file.path = SaveText(kind, calls[2].post)
        /\ (\A i \in 1..2 : calls[i].op \in {"add", "addDup", "set"}) =>
             \A i \in 1..2 :
                 IF kind \in {"Array", "Set"}
                 THEN Includes(file.path.doc.elems, calls[i].x)
                 ELSE HasKey(file.path.doc, calls[i].k)
        /\ (kind \in {"Record", "Map"} /\ calls[2].op = "set")
               => KeyedGet(file.path.doc, calls[2].k) = calls[2].x

\* C13: no save task runs inside the call that scheduled it, so of two
\* mutating calls made back to back both mutations are in the cache before
\* either save starts; both saves then write the cache after the second
\* mutation, and once both have resolved the file holds both updates.
C13_NoLostUpdate ==
    /\ [][C13_CallStartsNothing /\ C13_SavesSeeBoth]_vars
    /\ [](C13_BothOnDisk)

\* add(1) then add(2) on an empty Array manager before the first save
\* started: both saves wrote [1, 2], and so the file holds
C13_Witness ==
    /\ C13_Scenario
    /\ kind = "Array" /\ cache0 = Default("Array")
    /\ calls[1].x # calls[2].x
    /\ tasks[1].st = "ok" /\ tasks[2].st = "ok"
    /\ tasks[1].data = SaveText(kind, calls[2].post)
    /\ tasks[1].data # SaveText(kind, calls[1].post)
    /\ file.path = tasks[1].data

\* has(key) and get(key) of the keyed manager the instance is
Has(c, key) == IF kind = "Record" THEN RecordHas(c, key) ELSE HasKey(c, key)
Get(c, key) == IF kind = "Record" THEN RecordGet(c, key) ELSE KeyedGet(c, key)

\* the cache call i found, when neither load nor loadSync is called
Pre(i) == IF i = 1 THEN cache0 ELSE calls[i - 1].post

\* C14: add(k, v1) then add(k, v2) on a key that had no value leaves v1 at
\* k; set(k, v1) then set(k, v2) leaves v2 at k; and add on a key that has a
\* value leaves that value, whatever calls came before.
C14_InsertOnlyUpsert ==
    /\ \A i \in 1..(Len(calls) - 1) :
         LET a == calls[i]
             b == calls[i + 1]
         IN (a.k = b.k /\ ~a.threw /\ ~b.threw) =>
              /\ (a.op = "add" /\ b.op = "add" /\ ~Has(Pre(i), a.k))
                     => Get(b.post, a.k) = a.x
              /\ (a.op = "set" /\ b.op = "set") => Get(b.post, a.k) = b.x
    /\ \A i \in 1..Len(calls) :
         (calls[i].op = "add" /\ ~calls[i].threw /\ Has(Pre(i), calls[i].k))
            => Get(calls[i].post, calls[i].k) = Get(Pre(i), calls[i].k)

\* the call made in this step, if one is
NewestCall == calls'[Len(calls')]

\* C15: add of a Record or Map manager on a key that has a value schedules
\* no save and changes neither the cache nor the files; add of an Array
\* manager schedules exactly one save on every call, also with unique = true
\* on an item already there.
C15_PersistAsymmetry ==
    [][Len(calls') > Len(calls) =>
         /\ (/\ kind \in KeyedKinds
             /\ NewestCall.op = "add"
             /\ ~NewestCall.threw
             /\ Has(cache, NewestCall.k))
            => /\ tasks' = tasks
               /\ NewestCall.task = 0
               /\ cache' = cache
               /\ file' = file
         /\ (kind = "Array" /\ NewestCall.op \in {"add", "addDup"})
            => /\ Len(tasks') = Len(tasks) + 1
               /\ tasks'[Len(tasks')].op = "save"
               /\ NewestCall.task = Len(tasks')]_vars

\* how many elements of seq are x
Count(seq, x) == Cardinality({i \in 1..Len(seq) : SameValueZero(seq[i], x)})

\* C16: on an Array manager, add(x, true) leaves the sequence as it is when
\* it has an item equal to x and otherwise appends x at the end, and
\* add(x, false) appends x: from a sequence without x, add(x, true) twice
\* leaves exactly one x and add(x, false) twice leaves two.
C16_AddUnique ==
    /\ \A i \in 1..Len(calls) :
         LET pre == Pre(i).elems
             post == calls[i].post.elems
             x == calls[i].x
         IN /\ (calls[i].op = "add" /\ Count(pre, x) > 0) => post = pre
            /\ (calls[i].op = "add" /\ Count(pre, x) = 0) => post = Append(pre, x)
            /\ calls[i].op = "addDup" => post = Append(pre, x)
    /\ \A i \in 1..(Len(calls) - 1) :
         LET a == calls[i]
             b == calls[i + 1]
         IN (a.x = b.x /\ Count(Pre(i).elems, a.x) = 0) =>
              /\ (a.op = "add" /\ b.op = "add") => Count(b.post.elems, a.x) = 1
              /\ (a.op = "addDup" /\ b.op = "addDup") => Count(b.post.elems, a.x) = 2

\* add(x, true) twice with the same object x, from a sequence that holds
\* another object of the same content: x is there once
C16_Witness ==
    /\ Len(calls) >= 2
    /\ calls[1].op = "add" /\ calls[2].op = "add"
    /\ calls[1].x = Ref2 /\ calls[2].x = Ref2
    /\ Count(cache0.elems, Ref1) = 2
    /\ Count(cache.elems, Ref2) = 1
    /\ cache = calls[2].post

\* C17: on the sequence manager that offers get, delete(item) removes every
\* element equal to item, keeps the others in their order and schedules a
\* save; from ["x", "y"], after delete("y"), get(-1) is "x".
C17_DeleteRemovesAll ==
    \A i \in 1..Len(calls) :
        calls[i].op = "delete" =>
            /\ ~calls[i].threw
            /\ calls[i].post = ListDelete(Pre(i), calls[i].x).cache
            /\ calls[i].task # 0
            /\ (Pre(i) = Arr(<<Str("x"), Str("y")>>) /\ calls[i].x = Str("y"))
                   => ArrayGet(calls[i].post, 0 - 1) = Str("x")

\* where x first occurs in seq
FirstIndex(seq, x) == CHOOSE j \in 1..Len(seq) :
    /\ SameValueZero(seq[j], x)
    /\ \A h \in 1..(j - 1) : ~SameValueZero(seq[h], x)

\* C18: distinct() returns a sequence with every element of the cache once,
\* in the order of their first occurrences ([1,2,3] for [1,2,2,3,1]), and
\* leaves the cache as it is and schedules no save.
C18_Distinct ==
    /\ \A i \in 1..Len(calls) :
         calls[i].op = "distinct" =>
            LET pre == Pre(i).elems
                r == calls[i].ret.elems
            IN /\ ~calls[i].threw
               /\ calls[i].ret.t = "arr"
               /\ \A j \in 1..Len(pre) : Count(r, pre[j]) = 1
               /\ \A j \in 1..Len(r) : Count(pre, r[j]) >= 1
               /\ \A a \in 1..Len(r) : \A b \in 1..Len(r) :
                    a < b => FirstIndex(pre, r[a]) < FirstIndex(pre, r[b])
               /\ Pre(i) = Arr(<<Num("1"), Num("2"), Num("2"), Num("3"), Num("1")>>)
                      => calls[i].ret = Arr(<<Num("1"), Num("2"), Num("3")>>)
               /\ calls[i].post = Pre(i)
               /\ calls[i].task = 0
    /\ Len(tasks) = Cardinality({i \in 1..Len(calls) : calls[i].task # 0})

\* distinct() over [1,2,2,3,1] returned [1,2,3]; the cache is as it was
\* and nothing is scheduled
C18_Witness ==
    /\ Len(calls) = 1
    /\ calls[1].op = "distinct"
    /\ calls[1].ret = Arr(<<Num("1"), Num("2"), Num("3")>>)
    /\ cache = Arr(<<Num("1"), Num("2"), Num("2"), Num("3"), Num("1")>>)
    /\ tasks = <<>>
    /\ file.path = Absent /\ file.tmp = Absent

\* C19: get(index) returns the element at index for 0 <= index < length,
\* the element at length + index for -length <= index < 0, and undefined,
\* without throwing, for every other index; it leaves the cache as it is
\* and schedules no save.
C19_GetFromEnd ==
    /\ \A i \in 1..Len(calls) :
         calls[i].op = "get" =>
            LET pre == Pre(i).elems
                len == Len(pre)
                index == calls[i].i
            IN /\ ~calls[i].threw
               /\ (0 <= index /\ index < len) => calls[i].ret = pre[index + 1]
               /\ (0 - len <= index /\ index < 0) => calls[i].ret = pre[len + index + 1]
               /\ (index >= len \/ index < 0 - len) => calls[i].ret = Undefined
               /\ calls[i].post = Pre(i)
               /\ calls[i].task = 0
    /\ Len(tasks) = Cardinality({i \in 1..Len(calls) : calls[i].task # 0})

\* get(-2) on ["x", "y"] returned "x", and get(-3) after it undefined
C19_Witness ==
    /\ Len(calls) = 2
    /\ cache = Arr(<<Str("x"), Str("y")>>)
    /\ calls[1].op = "get" /\ calls[1].i = 0 - 2 /\ calls[1].ret = Str("x")
    /\ calls[2].op = "get" /\ calls[2].i = 0 - 3 /\ calls[2].ret = Undefined
    /\ tasks = <<>>

\* C20: loadSync and load have the same contract: what loadSync returned or
\* threw, and the cache it left, are what load produces from the same cache
\* and the same file, and the other way round, for every kind, cache and
\* file (absent, empty, malformed, of the wrong shape, valid).
C20_SameContract ==
    /\ lastLoad.op = "loadSync" =>
          /\ lastLoad.out = LoadBody(lastLoad.pre, lastLoad.raw).out
          /\ lastLoad.post = LoadBody(lastLoad.pre, lastLoad.raw).cache
    /\ lastLoad.op = "load" =>
          /\ lastLoad.out = LoadSyncBody(lastLoad.pre, lastLoad.raw).out
          /\ lastLoad.post = LoadSyncBody(lastLoad.pre, lastLoad.raw).cache

\* a Set manager with an initial value: loadSync read a file with no
\* content and returned false, then load read it and resolved with false
C20_Witness ==
    /\ kind = "Set" /\ cache0 = Given("Set")
    /\ Len(calls) = 2
    /\ calls[1].op = "loadSync" /\ ~calls[1].threw
    /\ calls[2].op = "load" /\ CallPromise(2) = "fulfilled"
    /\ lastLoad.op = "load" /\ lastLoad.raw = Empty /\ lastLoad.out = "false"
    /\ cache = cache0

\* a save that resolved has put its document at path (a later save may have
\* replaced it since), and a load that resolved with true has assigned the
\* cache
C21_EffectApplied ==
    /\ \A i \in Tasks :
         (tasks[i].op = "save" /\ tasks[i].st = "ok") =>
            \E j \in Tasks :
                j >= i /\ tasks[j].op = "save" /\ tasks[j].st = "ok"
                /\ file.path = tasks[j].data
    /\ (\E i \in Tasks : tasks[i].op = "load" /\ tasks[i].out = "true")
           => lastLoad.op = "load" /\ cache = lastLoad.post

\* C21: every load or save scheduled eventually runs its body and settles,
\* whether or not a task scheduled before it failed, nobody having to await
\* it; and what it did is in the cache and on disk.
C21_NoCancellation ==
    /\ \A i \in 1..MaxCalls :
         (Len(tasks) >= i) ~> (Len(tasks) >= i /\ Settled(tasks[i]) /\ tasks[i].ran)
    /\ [](C21_EffectApplied)

\* a load failed, and the save scheduled after it ran and replaced the file
C21_Witness ==
    /\ Len(tasks) = 2
    /\ tasks[1].op = "load" /\ tasks[1].st = "err"
    /\ tasks[2].op = "save" /\ tasks[2].st = "ok" /\ tasks[2].ran
    /\ file.path = tasks[2].data
    /\ file.path # path0

\* a save of the first instance has written the temporary file and has not
\* renamed it yet
BetweenWriteAndRename(i) ==
    tasks[i].op = "save" /\ tasks[i].st = "run" /\ tasks[i].ph = "rename"

\* C22: two instances on one path are not synchronized: whether a task of
\* one can start depends on its own queue alone, so it can start while a
\* save of the other is between its write of the temporary file and its
\* rename; and both write the same temporary file.
C22_Unsynchronized ==
    /\ \A j \in PeerTasks :
         (peer.tasks[j].st = "pending" /\ \A h \in 1..(j - 1) : Settled(peer.tasks[h]))
            => ENABLED PeerStartTask(j)
    /\ \A j \in Tasks :
         (tasks[j].st = "pending" /\ \A h \in 1..(j - 1) : Settled(tasks[h]))
            => ENABLED StartTask(j)
    /\ \A i \in Tasks : \A j \in PeerTasks :
         (/\ tasks[i].op = "save" /\ tasks[i].st = "run"
          /\ tasks[i].ph \in {"writing", "rename"}
          /\ peer.tasks[j].op = "save" /\ peer.tasks[j].st = "run"
          /\ peer.tasks[j].ph \in {"writing", "rename"})
            => file.tmp.doc \in {tasks[i].data.doc, peer.tasks[j].data.doc}

\* a save of the first instance is between its write and its rename, the
\* temporary file holding its document, and a save of the second instance,
\* of another document, can start
C22_Witness ==
    \E i \in Tasks : \E j \in PeerTasks :
        /\ BetweenWriteAndRename(i)
        /\ file.tmp = tasks[i].data
        /\ peer.tasks[j].op = "save" /\ peer.tasks[j].st = "pending"
        /\ SaveText(kind, peer.cache) # tasks[i].data
        /\ ENABLED PeerStartTask(j)

\* C23: load() was scheduled and, before its task ran, add(x) was called on
\* an Array manager or set(k, v) on a Record or Map manager; once the load
\* and the save of the mutation have both resolved, the entry is in the
\* cache and in the file at path.
C23_MutationSurvivesLoad ==
    (/\ Len(calls) = 2
     /\ calls[1].op = "load" /\ calls[2].task = 2
     /\ tasks[1].st = "ok" /\ tasks[2].st = "ok") =>
        /\ (kind = "Array" /\ calls[2].op \in {"add", "addDup"}) =>
              /\ Includes(cache.elems, calls[2].x)
              /\ Includes(file.path.doc.elems, calls[2].x)
        /\ (kind \in KeyedKinds /\ calls[2].op = "set") =>
              /\ Get(cache, calls[2].k) = calls[2].x
              /\ KeyedGet(file.path.doc, calls[2].k) = calls[2].x

Resolved == {j \in Tasks : tasks[j].st = "ok"}

Latest(S) == CHOOSE j \in S : \A h \in S : h <= j

\* a save serializes the cache as it is in the step in which its task
\* starts, and the document does not change afterwards
C24_SnapshotAtStart ==
    \A i \in Tasks :
        /\ (tasks[i].st = "pending" /\ tasks'[i].st = "run")
               => tasks'[i].data = SaveText(kind, cache)
        /\ tasks[i].st # "pending" => tasks'[i].data = tasks[i].data

\* path changes only by the rename of a running save, to the document of
\* that save, and then every earlier save has settled and no later one has
\* started
C24_RenameInOrder ==
    file'.path # file.path =>
        \E i \in Tasks :
            /\ tasks[i].st = "run" /\ tasks'[i].st = "ok"
            /\ file'.path = tasks[i].data
            /\ \A h \in Tasks : h < i => Settled(tasks[h])
            /\ \A h \in Tasks : h > i => tasks[h].st = "pending"

\* C24: with no load and no crash, every content that comes to path is the
\* serialization of the cache as it was when some save task started, and
\* the contents follow the order in which those tasks started: path holds
\* the document of the latest save that has resolved, never an older one.
C24_OrderedSnapshots ==
    /\ [][C24_SnapshotAtStart /\ C24_RenameInOrder]_vars
    /\ [](IF Resolved = {} THEN file.path = path0
           ELSE file.path = tasks[Latest(Resolved)].data)

\* the first save started after a second mutation: path holds the cache of
\* that moment, not the cache of the moment the save was enqueued
C24_Witness ==
    /\ Len(calls) = 2 /\ calls[1].task = 1 /\ calls[2].task = 2
    /\ tasks[1].st = "ok" /\ tasks[2].st = "pending"
    /\ file.path = tasks[1].data
    /\ file.path # SaveText(kind, calls[1].post)
    /\ file.path = SaveText(kind, calls[2].post)

\* the validation and conversion applied to the top-level value alone, the
\* nested values staying as parsed
TopLevelOnly(op, c, d) ==
    LET top == IF op = "load" THEN Reviver(c, "", d) ELSE ReviverSync(c, "", d)
    IN IF top.t = "throw"
       THEN [out |-> "ShapeError", cache |-> c]
       ELSE [out |-> "true", cache |-> top]

\* C25: a load or loadSync that read a JSON document validated and
\* converted its top-level value only: it threw a shape error exactly when
\* the top-level value does not fit the cache, and otherwise returned true
\* with the nested values, members named "" included, as plain parsed JSON.
C25_TopLevelOnly ==
    (lastLoad.op \in {"load", "loadSync"} /\ lastLoad.raw.s = "doc") =>
        LET r == TopLevelOnly(lastLoad.op, lastLoad.pre, lastLoad.raw.doc)
        IN /\ lastLoad.out = r.out
           /\ lastLoad.post = r.cache
====
